---- MODULE Spec2Model ----
(***************************************************************************)
(* hwwwmon (src/hwwwmon.py): the sensor registry Mons (construction,       *)
(* collect, close) and the HTTP handler HwmRequestHandler served by the    *)
(* single-threaded http.server.HTTPServer of main().                       *)
(*                                                                         *)
(* Texts that the program parses (sensor file contents, the update-rate    *)
(* query value) are sequences of one-character strings, so that int() is   *)
(* computed rather than assumed.  A sensor file's base name is kept as its *)
(* two tokens <category><n> in front of the fixed "_input" suffix of the   *)
(* glob pattern.  Numbers that Python computes as floats (raw * scale) are *)
(* kept exact, as a numerator over the scale's denominator.                *)
(***************************************************************************)
EXTENDS Integers, Sequences, FiniteSets, TLC

\* ---------------------------------------------------------------- bounds
\* Largest number of sensor input files the glob returns in SpecMons.
MaxGlob == 2
\* Number of client connections in Spec.
MaxConns == 2

\* ------------------------------------------------------------ Python int()
Digits == {"0", "1", "2", "3", "4", "5", "6", "7", "8", "9"}

Whitespace == {" ", "\n", "\t"}

DigitVal(ch) ==
    CASE ch = "0" -> 0 [] ch = "1" -> 1 [] ch = "2" -> 2 [] ch = "3" -> 3
      [] ch = "4" -> 4 [] ch = "5" -> 5 [] ch = "6" -> 6 [] ch = "7" -> 7
      [] ch = "8" -> 8 [] ch = "9" -> 9

RECURSIVE LStrip(_)
LStrip(s) ==
    IF s # <<>> /\ Head(s) \in Whitespace THEN LStrip(Tail(s)) ELSE s

RECURSIVE RStrip(_)
RStrip(s) ==
    IF s # <<>> /\ s[Len(s)] \in Whitespace
    THEN RStrip(SubSeq(s, 1, Len(s) - 1))
    ELSE s

\* str.strip()
Strip(s) == RStrip(LStrip(s))

RECURSIVE DigitsValue(_, _)
DigitsValue(s, acc) ==
    IF s = <<>> THEN acc ELSE DigitsValue(Tail(s), acc * 10 + DigitVal(Head(s)))

\* int(text): surrounding whitespace is ignored, one optional sign, then one
\* or more decimal digits; anything else is a ValueError.
PyInt(text) ==
    LET t == Strip(text)
        signed == t # <<>> /\ Head(t) \in {"+", "-"}
        body == IF signed THEN Tail(t) ELSE t
    IN  IF body = <<>> \/ \E i \in 1..Len(body) : body[i] \notin Digits
        THEN [ok |-> FALSE, val |-> 0]
        ELSE [ok |-> TRUE,
              val |-> IF signed /\ Head(t) = "-"
                      THEN 0 - DigitsValue(body, 0)
                      ELSE DigitsValue(body, 0)]

\* ------------------------------------------------------- the sensor files
\* The hwmon tree the program is run against, in the order of
\* sorted(glob.glob("/sys/class/hwmon/*/*_input")).  dir is the device
\* directory's base name; stem and num are the base name's category and the
\* rest up to "_input"; devname is the content of the directory's name file
\* and label the content of the sibling _label file ("-" when the file does
\* not exist).
NoFile == "-"

SysFiles ==
    << [dir |-> "hwmon0", stem |-> "curr",     num |-> "1", devname |-> "coretemp", label |-> NoFile],
       [dir |-> "hwmon0", stem |-> "energy",   num |-> "1", devname |-> "coretemp", label |-> NoFile],
       [dir |-> "hwmon0", stem |-> "fan",      num |-> "1", devname |-> "coretemp", label |-> "cpu fan"],
       [dir |-> "hwmon0", stem |-> "freq",     num |-> "1", devname |-> "coretemp", label |-> NoFile],
       [dir |-> "hwmon0", stem |-> "humidity", num |-> "1", devname |-> "coretemp", label |-> NoFile],
       [dir |-> "hwmon0", stem |-> "in",       num |-> "0", devname |-> "coretemp", label |-> NoFile],
       [dir |-> "hwmon0", stem |-> "power",    num |-> "1", devname |-> "coretemp", label |-> NoFile],
       [dir |-> "hwmon1", stem |-> "temp",     num |-> "1", devname |-> "coretemp", label |-> "Package id 0"],
       [dir |-> "hwmon1", stem |-> "temp",     num |-> "2", devname |-> "coretemp", label |-> NoFile],
       [dir |-> "hwmon2", stem |-> "temp",     num |-> "1", devname |-> NoFile,     label |-> NoFile] >>

Paths == 1..Len(SysFiles)

\* What a sensor file can hold: an integer and a newline, a bare negative
\* integer, nothing at all.
Texts == { <<"4", "2", "\n">>, <<"-", "7">>, <<>> }

\* ------------------------------------------------------------ Mons.__init__
\* slurp(path, ifnotexist)
slurp(file, ifnotexist) == IF file = NoFile THEN ifnotexist ELSE file

\* re.sub(r'\d.*', '', os.path.basename(mon_path))
MonType(p) == SysFiles[p].stem

\* re.sub(r'hwmon', '', os.path.basename(mon_dirpath))
DirId(p) ==
    CASE SysFiles[p].dir = "hwmon0" -> "0"
      [] SysFiles[p].dir = "hwmon1" -> "1"
      [] SysFiles[p].dir = "hwmon2" -> "2"

\* "%s:%s %s" % (instance id, name file, label file or channel)
MonName(p) ==
    << DirId(p), ":", slurp(SysFiles[p].devname, ""), " " >>
    \o (IF SysFiles[p].label = NoFile
        THEN << SysFiles[p].stem, SysFiles[p].num >>
        ELSE << SysFiles[p].label >>)

One == [num |-> 1, den |-> 1]
Milli == [num |-> 1, den |-> 1000]
Micro == [num |-> 1, den |-> 1000000]

TypeTitleNoIn(mon_type) ==
    IF mon_type = "fan" THEN "Fan speed (RPM)"
    ELSE IF mon_type = "temp" THEN "Temperature (°C)"
    ELSE IF mon_type = "curr" THEN "Current (A)"
    ELSE IF mon_type = "power" THEN "Power (W)"
    ELSE IF mon_type = "energy" THEN "Energy (J)"
    ELSE IF mon_type = "freq" THEN "Frequency (MHz)"
    ELSE mon_type

\* The if/elif chain of __init__: the title stored in type_titles[mon_type].
TypeTitle(mon_type) ==
    IF mon_type = "in" THEN "Voltage (V)"
    ELSE IF mon_type = "fan" THEN "Fan speed (RPM)"
    ELSE IF mon_type = "temp" THEN "Temperature (°C)"
    ELSE IF mon_type = "curr" THEN "Current (A)"
    ELSE IF mon_type = "power" THEN "Power (W)"
    ELSE IF mon_type = "energy" THEN "Energy (J)"
    ELSE IF mon_type = "freq" THEN "Frequency (MHz)"
    ELSE mon_type

\* The if/elif chain of __init__: mon_scale.
TypeScale(mon_type) ==
    IF mon_type = "in" THEN Milli
    ELSE IF mon_type = "fan" THEN One
    ELSE IF mon_type = "temp" THEN Milli
    ELSE IF mon_type = "curr" THEN Milli
    ELSE IF mon_type = "power" THEN Micro
    ELSE IF mon_type = "energy" THEN Micro
    ELSE IF mon_type = "freq" THEN Micro
    ELSE One

\* mon_offset
TypeOffset(mon_type) == 0

\* ------------------------------------------------------------------ state
VARIABLES
    glob,         \* the sorted listing of sensor input files the glob returns
    content,      \* content[p]: the text sensor file p holds
    mons,         \* mons[r]: self.mons of registry r, in dict insertion order
    type_titles,  \* type_titles[r]: self.type_titles of registry r
    fh,           \* fh[<<r, p>>]: the file object registry r opened on p
    built,        \* built[r]: "no", "yes" (Mons() returned), "raised"
    lastOut,      \* lastOut[r]: how the last collect() on r ended
    lastFaults,   \* lastFaults[r]: the I/O errors the last collect() met
    prevOut,      \* prevOut[r]: the collect() before, when it met no I/O
                  \* error and nothing changed up to the last one
    changed,      \* changed[r]: a file was rewritten, or r closed, since the
                  \* last collect()
    nclose,       \* nclose[r]: close() calls made on r
    oplog,        \* <<actor, opener, op>> of every operation on a file object
    regOf,        \* regOf[c]: the registry request c constructed, 0 if none
    req,          \* req[c]: the request of connection c
    pc,           \* pc[c]: where the handler of connection c stands
    connected,    \* connected[c]: the client still reads what is written
    discAt,       \* discAt[c]: where the handler stood when the client went
                  \* away: "" (it has not), "head", "loop" (in while True)
    serving,      \* the connection the server is handling, 0 when idle
    resp,         \* resp[c]: status, content type, whether a body was sent
    exit          \* exit[c]: why the handler leaves, and whether by raising

vars == << glob, content, mons, type_titles, fh, built, lastOut, lastFaults,
           prevOut, changed, nclose, oplog, regOf, req, pc, connected, discAt,
           serving, resp, exit >>

monsVars == << mons, type_titles, fh, built, lastOut, lastFaults, prevOut,
               changed, nclose, oplog >>

httpVars == << regOf, req, pc, connected, discAt, serving, resp, exit >>

Conns == 1..MaxConns

\* One registry object per connection; SpecMons drives registry 1 directly.
Regs == Conns

EmptyFn == [x \in {} |-> x]

NoFh == [st |-> "none", pos |-> 0, closes |-> 0, opener |-> 0]

NoOut == [kind |-> "none"]

NoExit == [cause |-> "", raised |-> FALSE]

\* ------------------------------------------------------------ Mons.__init__
\* self.mons[mon_type][mon_path] = dict(name, fh, scale, offset), creating
\* self.mons[mon_type] first when the type is new.
AddSensor(m, r, p) ==
    LET e == [path |-> p, name |-> MonName(p), fh |-> <<r, p>>,
              scale |-> TypeScale(MonType(p)), offset |-> TypeOffset(MonType(p))]
    IN  IF \E i \in 1..Len(m) : m[i].type = MonType(p)
        THEN [i \in 1..Len(m) |->
                 IF m[i].type = MonType(p)
                 THEN [m[i] EXCEPT !.sensors = Append(@, e)]
                 ELSE m[i]]
        ELSE Append(m, [type |-> MonType(p), sensors |-> <<e>>])

\* The loop of __init__ over the listing from file i on; open() of file
\* number failAt raises (the file went away after the glob), 0 for none.
\* The titles are assigned before the open, the handle is kept only when
\* open() returned.
RECURSIVE InitLoop(_, _, _, _, _)
InitLoop(listing, i, failAt, r, acc) ==
    IF i > Len(listing) THEN acc
    ELSE LET p == listing[i]
             titled == [acc EXCEPT !.type_titles =
                           (MonType(p) :> TypeTitle(MonType(p))) @@ @]
         IN  IF i = failAt
             THEN [titled EXCEPT !.ok = FALSE]
             ELSE InitLoop(listing, i + 1, failAt, r,
                           [titled EXCEPT !.mons = AddSensor(@, r, p),
                                          !.opened = @ \cup {p}])

\* Mons(): ok, the two dicts, and the paths whose open() returned.
MonsInit(listing, failAt, r) ==
    InitLoop(listing, 1, failAt, r,
             [ok |-> TRUE, mons |-> <<>>, type_titles |-> EmptyFn, opened |-> {}])

\* ------------------------------------------------------------ Mons.collect
Faults == {"ok", "seek", "read"}

SeekNone(f) == f

\* m['fh'].seek(0)
Seek(f) == [f EXCEPT !.pos = 0]

\* m['fh'].read(): the text from the file position to the end.
ReadText(f, text) == SubSeq(text, f.pos + 1, Len(text))

\* One sensor of the inner loop.  acc.kind is "ok" while no exception has
\* left collect; the seek is outside the try, the read and the int() inside
\* it, and only OSError is caught.
CollectOne(acc, mon_type, m, cont, faults) ==
    IF faults[m.path] = "seek" THEN [acc EXCEPT !.kind = "OSError"]
    ELSE LET f == Seek(acc.fh[m.fh])
         IN  IF faults[m.path] = "read"
             THEN [acc EXCEPT !.fh[m.fh] = f,
                              !.out.errors = Append(@, <<"Failed to read", m.path>>)]
             ELSE LET n == PyInt(ReadText(f, cont[m.path]))
                      g == [f EXCEPT !.pos = Len(cont[m.path])]
                  IN  IF ~n.ok
                      THEN [acc EXCEPT !.fh[m.fh] = g, !.kind = "ValueError"]
                      ELSE [acc EXCEPT
                              !.fh[m.fh] = g,
                              !.out.vals[mon_type] =
                                  (m.name :> [num |-> n.val * m.scale.num
                                                      + m.offset * m.scale.den,
                                              den |-> m.scale.den]) @@ @]

RECURSIVE CollectSensors(_, _, _, _, _, _)
CollectSensors(acc, mon_type, sensors, j, cont, faults) ==
    IF j > Len(sensors) \/ acc.kind # "ok" THEN acc
    ELSE CollectSensors(CollectOne(acc, mon_type, sensors[j], cont, faults),
                        mon_type, sensors, j + 1, cont, faults)

RECURSIVE CollectTypes(_, _, _, _, _)
CollectTypes(acc, m, i, cont, faults) ==
    IF i > Len(m) \/ acc.kind # "ok" THEN acc
    ELSE CollectTypes(
            CollectSensors([acc EXCEPT !.out.vals = (m[i].type :> EmptyFn) @@ @],
                           m[i].type, m[i].sensors, 1, cont, faults),
            m, i + 1, cont, faults)

\* collect(): kind "ok" with the snapshot out, or the exception that left
\* it; fh is the file objects afterwards.
Collect(m, titles, fhs, cont, faults) ==
    CollectTypes([kind |-> "ok",
                  out |-> [errors |-> <<>>, titles |-> titles, vals |-> EmptyFn],
                  fh |-> fhs],
                 m, 1, cont, faults)

\* The paths collect() seeks and the paths it reads, for the operation log.
Handles(m) ==
    UNION { { m[i].sensors[j].fh : j \in 1..Len(m[i].sensors) } : i \in 1..Len(m) }

\* -------------------------------------------------------------- Mons.close
\* m['fh'].close() for every retained handle; a closed file object has no
\* position any more.
CloseAll(m, fhs) ==
    [h \in DOMAIN fhs |->
        IF h \in Handles(m)
        THEN [fhs[h] EXCEPT !.st = "closed", !.pos = 0, !.closes = @ + 1]
        ELSE fhs[h]]

MonsKept(m) == m

\* self.mons = dict()
MonsAfterClose(m) == <<>>

\* ---------------------------------------------------------- the operations
Range(s) == { s[i] : i \in 1..Len(s) }

\* sorted(...): the paths of S in ascending order.
RECURSIVE Sorted(_)
Sorted(S) ==
    IF S = {} THEN <<>>
    ELSE LET m == CHOOSE x \in S : \A y \in S : x <= y
         IN  <<m>> \o Sorted(S \ {m})

\* The sorted listings of at most n of the files in S.
Listings(S, n) == { Sorted(T) : T \in { U \in SUBSET S : Cardinality(U) <= n } }

AllOk(faults) == \A p \in DOMAIN faults : faults[p] = "ok"

\* mons = Mons() by actor c into registry r; open() of file failAt raises.
New(c, r, failAt) ==
    LET res == MonsInit(glob, failAt, r)
    IN  /\ built' = [built EXCEPT ![r] = IF res.ok THEN "yes" ELSE "raised"]
        /\ mons' = [mons EXCEPT ![r] = IF res.ok THEN res.mons ELSE <<>>]
        /\ type_titles' = [type_titles EXCEPT ![r] =
                              IF res.ok THEN res.type_titles ELSE EmptyFn]
        /\ fh' = [h \in DOMAIN fh |->
                     IF h[1] = r /\ h[2] \in res.opened
                     THEN [st |-> "open", pos |-> 0, closes |-> 0, opener |-> c]
                     ELSE fh[h]]
        /\ oplog' = oplog

\* The file objects collect() and close() operate on, with their openers.
Touched(c, r, op) == { <<c, fh[h].opener, op>> : h \in Handles(mons[r]) }

\* mons.collect() on registry r under the given I/O errors.
CollectOf(r, faults) == Collect(mons[r], type_titles[r], fh, content, faults)

\* mons.collect() by actor c on registry r: what it does to the files.
DoCollect(c, r, faults) ==
    /\ fh' = CollectOf(r, faults).fh
    /\ oplog' = oplog \cup Touched(c, r, "collect")

\* What the caller of collect() on registry r gets, kept for the claims
\* on Mons.
Observe(r, faults) ==
    LET res == CollectOf(r, faults)
    IN  /\ lastOut' = [lastOut EXCEPT ![r] =
                          IF res.kind = "ok"
                          THEN [kind |-> "ok", out |-> res.out]
                          ELSE [kind |-> res.kind]]
        /\ prevOut' = [prevOut EXCEPT ![r] =
                          IF ~changed[r] /\ AllOk(lastFaults[r]) /\ AllOk(faults)
                          THEN lastOut[r]
                          ELSE NoOut]
        /\ lastFaults' = [lastFaults EXCEPT ![r] = faults]
        /\ changed' = [changed EXCEPT ![r] = FALSE]

\* mons.close() by actor c on registry r.
DoClose(c, r) ==
    /\ fh' = CloseAll(mons[r], fh)
    /\ mons' = [mons EXCEPT ![r] = MonsAfterClose(@)]
    /\ nclose' = [nclose EXCEPT ![r] = @ + 1]
    /\ oplog' = oplog \cup Touched(c, r, "close")

\* The kernel rewrites a sensor file.
SensorWrite ==
    \E p \in Range(glob) : \E t \in Texts \ {content[p]} :
        /\ content' = [content EXCEPT ![p] = t]
        /\ changed' = [r \in Regs |-> lastOut[r].kind # "none"]
        /\ UNCHANGED << glob, mons, type_titles, fh, built, lastOut, lastFaults,
                        prevOut, nclose, oplog >>
        /\ UNCHANGED httpVars

\* ------------------------------------------ Mons driven directly (SpecMons)
\* The files SpecMons draws its listings from: two sensors of one type in
\* one device and one of another type.
MonsFiles == {6, 8, 9}

\* Largest number of close() calls SpecMons makes on the registry.
MaxCloses == 3

InitCommon ==
    /\ content = [p \in Paths |-> <<"4", "2", "\n">>]
    /\ mons = [r \in Regs |-> <<>>]
    /\ type_titles = [r \in Regs |-> EmptyFn]
    /\ fh = [h \in Regs \X Paths |-> NoFh]
    /\ built = [r \in Regs |-> "no"]
    /\ lastOut = [r \in Regs |-> NoOut]
    /\ lastFaults = [r \in Regs |-> EmptyFn]
    /\ prevOut = [r \in Regs |-> NoOut]
    /\ changed = [r \in Regs |-> FALSE]
    /\ nclose = [r \in Regs |-> 0]
    /\ oplog = {}
    /\ regOf = [c \in Conns |-> 0]
    /\ req = [c \in Conns |-> [method |-> "", path |-> "", rate |-> <<>>]]
    /\ pc = [c \in Conns |-> "idle"]
    /\ connected = [c \in Conns |-> FALSE]
    /\ discAt = [c \in Conns |-> ""]
    /\ serving = 0
    /\ resp = [c \in Conns |-> [status |-> 0, ctype |-> "", body |-> FALSE]]
    /\ exit = [c \in Conns |-> NoExit]

InitMons ==
    /\ glob \in Listings(MonsFiles, MaxGlob)
    /\ InitCommon

MonsNew ==
    /\ built[1] = "no"
    /\ \E failAt \in 0..Len(glob) : New(1, 1, failAt)
    /\ UNCHANGED << glob, content, lastOut, lastFaults, prevOut, changed, nclose >>
    /\ UNCHANGED httpVars

MonsCollect ==
    /\ built[1] = "yes"
    /\ \E faults \in [Range(glob) -> Faults] :
          DoCollect(1, 1, faults) /\ Observe(1, faults)
    /\ UNCHANGED << glob, content, mons, type_titles, built, nclose >>
    /\ UNCHANGED httpVars

MonsClose ==
    /\ built[1] = "yes"
    /\ nclose[1] < MaxCloses
    /\ DoClose(1, 1)
    /\ changed' = [changed EXCEPT ![1] = TRUE]
    /\ UNCHANGED << glob, content, type_titles, built, lastOut, lastFaults, prevOut >>
    /\ UNCHANGED httpVars

NextMons == MonsNew \/ MonsCollect \/ MonsClose \/ SensorWrite

SpecMons == InitMons /\ [][NextMons]_vars

\* ------------------------------------- registry construction (SpecTable)
InitTable ==
    /\ glob \in Listings(Paths, Len(SysFiles))
    /\ InitCommon

NextTable == MonsNew \/ MonsClose

SpecTable == InitTable /\ [][NextTable]_vars

\* ------------------------------------------------------- claims on Mons
\* The sensors registry r retains, each with its type.
Sensors(r) ==
    UNION { { [type |-> mons[r][i].type, m |-> mons[r][i].sensors[j]]
              : j \in 1..Len(mons[r][i].sensors) } : i \in 1..Len(mons[r]) }

Note(p) == <<"Failed to read", p>>

NotesOf(out, p) == { i \in 1..Len(out.errors) : out.errors[i] = Note(p) }

HasValue(out, s) ==
    /\ s.type \in DOMAIN out.vals
    /\ s.m.name \in DOMAIN out.vals[s.type]

\* The last collect() on registry 1 is still comparable with the files: it
\* was made, and no file was rewritten and the registry not closed since.
Collected == lastOut[1].kind # "none" /\ ~changed[1]

\* Sensor s failed in the last collect(): an I/O error, or content that
\* int() rejects.
FailedIn(s) ==
    \/ lastFaults[1][s.m.path] # "ok"
    \/ ~PyInt(content[s.m.path]).ok

\* C1: a read or parse failure of one sensor (an I/O error on seek or read,
\* content that is no integer) is isolated to that sensor: collect still
\* returns a snapshot, a note with the sensor's path is in _errors, its
\* value is omitted, and every other sensor's value is present.
C1_FailureIsolated ==
    Collected =>
        /\ lastOut[1].kind = "ok"
        /\ \A s \in Sensors(1) :
              IF FailedIn(s)
              THEN /\ NotesOf(lastOut[1].out, s.m.path) # {}
                   /\ ~HasValue(lastOut[1].out, s)
              ELSE HasValue(lastOut[1].out, s)

\* C4: close() closes every retained handle exactly once and is
\* idempotent: after the first call nothing is retained, and over any
\* sequence of close() calls every opened handle is closed exactly once.
C4_CloseIdempotent ==
    /\ \A h \in DOMAIN fh : fh[h].closes <= 1
    /\ nclose[1] >= 1 =>
          /\ mons[1] = <<>>
          /\ \A h \in DOMAIN fh :
                fh[h].st # "none" => fh[h].st = "closed" /\ fh[h].closes = 1

C4_Witness ==
    /\ nclose[1] >= 2
    /\ \E h \in DOMAIN fh : fh[h].st = "closed" /\ fh[h].closes = 1

\* C5: when a sensor's file is unreadable in a collect() call, that call
\* returns a snapshot with exactly one _errors entry naming the sensor's
\* path and without the sensor's display name; a call in which the sensor
\* is readable again has its value and no entry for it (nothing is carried
\* over from earlier calls).
C5_UnreadableSensor ==
    Collected =>
        \A s \in Sensors(1) :
            IF lastFaults[1][s.m.path] # "ok"
            THEN /\ lastOut[1].kind = "ok"
                 /\ Cardinality(NotesOf(lastOut[1].out, s.m.path)) = 1
                 /\ ~HasValue(lastOut[1].out, s)
            ELSE lastOut[1].kind = "ok" /\ PyInt(content[s.m.path]).ok =>
                    /\ NotesOf(lastOut[1].out, s.m.path) = {}
                    /\ HasValue(lastOut[1].out, s)

\* C7: two successive collect() calls on a registry whose handles are all
\* readable and whose files did not change return identical snapshots
\* (the same _titles and the same value for every sensor): the second
\* read starts at position zero again.
C7_RepeatedCollect ==
    prevOut[1].kind = "ok" => lastOut[1] = prevOut[1]

C7_Witness ==
    /\ prevOut[1].kind = "ok"
    /\ lastOut[1] = prevOut[1]
    /\ \E s \in Sensors(1) : HasValue(lastOut[1].out, s)

\* The conversion table: category, title, scale.
TableTitle(category) ==
    CASE category = "in" -> "Voltage (V)"
      [] category = "fan" -> "Fan speed (RPM)"
      [] category = "temp" -> "Temperature (°C)"
      [] category = "curr" -> "Current (A)"
      [] category = "power" -> "Power (W)"
      [] category = "energy" -> "Energy (J)"
      [] category = "freq" -> "Frequency (MHz)"
      [] OTHER -> category

TableScale(category) ==
    CASE category \in {"in", "temp", "curr"} -> [num |-> 1, den |-> 1000]
      [] category \in {"power", "energy", "freq"} -> [num |-> 1, den |-> 1000000]
      [] OTHER -> [num |-> 1, den |-> 1]

\* C8: for every sensor a registry holds, the title of its category and
\* its scale are those of the conversion table, the offset is 0, and the
\* title of category in is the voltage title, never the raw string.
C8_ConversionTable ==
    \A r \in Regs : \A s \in Sensors(r) :
        /\ s.type \in DOMAIN type_titles[r]
        /\ type_titles[r][s.type] = TableTitle(s.type)
        /\ s.m.scale = TableScale(s.type)
        /\ s.m.offset = 0
        /\ s.type = "in" => type_titles[r][s.type] # "in"

C8_Witness ==
    /\ built[1] = "yes"
    /\ \E s \in Sensors(1) : s.type = "in" /\ type_titles[1]["in"] = "Voltage (V)"
    /\ \E s \in Sensors(1) : s.type = "humidity" /\ type_titles[1]["humidity"] = "humidity"
    /\ \E s \in Sensors(1) : s.type = "power" /\ s.m.scale.den = 1000000

\* ------------------------------------------------- the HTTP server (Spec)
\* The files the served machine has.
HttpFiles == {6, 8}

Methods == {"GET", "HEAD", "POST"}

UrlPaths == {"/", "/mon.json", "/mon.sse", "/does-not-exist"}

\* parse_qs(u.query).get("update-rate"): the values given, none, one that
\* is a number of milliseconds, a negative one, one that is no number.
RateArgs == { <<>>, << <<"1", "0", "0", "0">> >>, << <<"-", "5">> >>, << <<"x">> >> }

Requests ==
    { r \in [method : Methods, path : UrlPaths, rate : RateArgs] :
        /\ r.rate # <<>> => r.method = "GET" /\ r.path = "/mon.sse"
        /\ r.method = "HEAD" => r.path = "/"
        /\ r.method = "POST" => r.path = "/mon.json" }

RECURSIVE Join(_)
Join(l) == IF l = <<>> THEN <<>> ELSE Head(l) \o Join(Tail(l))

\* int("".join(qs.get("update-rate", ["300"]))): milliseconds; the sleep
\* is this over 1000.
UpdateRate(r) == PyInt(Join(IF r.rate = <<>> THEN << <<"3", "0", "0">> >> ELSE r.rate))

\* BaseHTTPRequestHandler.handle_one_request looks do_<METHOD> up on the
\* handler class: do_GET is defined here, do_HEAD is inherited from
\* SimpleHTTPRequestHandler, anything else is answered 501.
MethodOf(r) ==
    IF r.method = "GET" THEN "do_GET"
    ELSE IF r.method = "HEAD" THEN "do_HEAD"
    ELSE "unsupported"

\* do_GET: the route chosen from u.path.
Route(r) ==
    IF r.path = "/" THEN "do_index"
    ELSE IF r.path = "/mon.json" THEN "do_mon"
    ELSE IF r.path = "/mon.sse" THEN "do_mon_sse"
    ELSE "not_found"

MonsShared(c) == 1

\* mons = Mons(): the registry object the handler of connection c builds.
MonsFor(c) == c

InitHttp ==
    /\ glob \in Listings(HttpFiles, MaxGlob)
    /\ InitCommon

\* Where the handler of /mon.sse stands inside while True.
SseLoop == {"sse_prefix", "sse_collect", "sse_emit", "sse_sleep"}

\* A client connects and sends its request; connections are numbered in
\* the order they are made.
Connect(c, R) ==
    /\ pc[c] = "idle"
    /\ \A d \in Conns : d < c => pc[d] # "idle"
    /\ \E r \in R : req' = [req EXCEPT ![c] = r]
    /\ pc' = [pc EXCEPT ![c] = "queued"]
    /\ connected' = [connected EXCEPT ![c] = TRUE]
    /\ UNCHANGED << glob, content, regOf, discAt, serving, resp, exit >>
    /\ UNCHANGED monsVars

\* The client goes away: from now on every write to it fails.
Disconnect(c) ==
    /\ connected[c]
    /\ pc[c] \notin {"idle", "finally", "done"}
    /\ connected' = [connected EXCEPT ![c] = FALSE]
    /\ discAt' = [discAt EXCEPT ![c] = IF pc[c] \in SseLoop THEN "loop" ELSE "head"]
    /\ UNCHANGED << glob, content, regOf, req, pc, serving, resp, exit >>
    /\ UNCHANGED monsVars

\* serve_forever takes one connection at a time, in the order the listen
\* queue holds them.
Starts(c, method, route) ==
    /\ serving = 0
    /\ pc[c] = "queued"
    /\ \A d \in Conns : d < c => pc[d] = "done"
    /\ MethodOf(req[c]) = method
    /\ method = "do_GET" => Route(req[c]) = route

\* The handler returns or raises without a registry to tear down.
Leave(c, cause, raised) ==
    /\ pc' = [pc EXCEPT ![c] = "done"]
    /\ exit' = [exit EXCEPT ![c] = [cause |-> cause, raised |-> raised]]
    /\ serving' = 0

\* A whole response of status and content type, written at end_headers and
\* after; the write raises when the client is gone.
Answer(c, status, ctype) ==
    IF connected[c]
    THEN /\ resp' = [resp EXCEPT ![c] = [status |-> status, ctype |-> ctype, body |-> TRUE]]
         /\ Leave(c, "returned", FALSE)
    ELSE /\ resp' = resp
         /\ Leave(c, "headers", TRUE)

DoIndex(c) ==
    /\ Starts(c, "do_GET", "do_index")
    /\ Answer(c, 200, "text/html")
    /\ UNCHANGED << glob, content, regOf, req, connected, discAt >>
    /\ UNCHANGED monsVars

NotFound(c) ==
    /\ Starts(c, "do_GET", "not_found")
    /\ Answer(c, 404, "text/plain")
    /\ UNCHANGED << glob, content, regOf, req, connected, discAt >>
    /\ UNCHANGED monsVars

\* send_error(501) of the base class.
Unsupported(c) ==
    /\ Starts(c, "unsupported", "")
    /\ Answer(c, 501, "text/html;charset=utf-8")
    /\ UNCHANGED << glob, content, regOf, req, connected, discAt >>
    /\ UNCHANGED monsVars

\* The inherited do_HEAD answers from the working directory: for / the
\* directory's listing when it can be listed, send_error(404) when not.
DoHead(c) ==
    /\ Starts(c, "do_HEAD", "")
    /\ \E listed \in BOOLEAN :
          IF listed THEN Answer(c, 200, "text/html; charset=utf-8")
          ELSE Answer(c, 404, "text/html;charset=utf-8")
    /\ UNCHANGED << glob, content, regOf, req, connected, discAt >>
    /\ UNCHANGED monsVars

\* The head of do_mon and do_mon_sse from end_headers on: the headers are
\* written, then mons = Mons(); into says where the handler goes on.
Open(c, ctype, into) ==
    IF ~connected[c]
    THEN /\ Leave(c, "headers", TRUE)
         /\ UNCHANGED << resp, regOf >>
         /\ UNCHANGED monsVars
    ELSE /\ resp' = [resp EXCEPT ![c] = [status |-> 200, ctype |-> ctype, body |-> FALSE]]
         /\ regOf' = [regOf EXCEPT ![c] = MonsFor(c)]
         /\ \E failAt \in 0..Len(glob) :
               /\ New(c, MonsFor(c), failAt)
               /\ IF MonsInit(glob, failAt, MonsFor(c)).ok
                  THEN /\ pc' = [pc EXCEPT ![c] = into]
                       /\ serving' = c
                       /\ exit' = exit
                  ELSE Leave(c, "construct", TRUE)
         /\ UNCHANGED << lastOut, lastFaults, prevOut, changed, nclose >>

\* The step of the try block that leaves it: pc goes to the finally.
Leaving(c, cause, raised) ==
    /\ pc' = [pc EXCEPT ![c] = "finally"]
    /\ exit' = [exit EXCEPT ![c] = [cause |-> cause, raised |-> raised]]

\* do_mon up to mons = Mons()
MonOpen(c) ==
    /\ Starts(c, "do_GET", "do_mon")
    /\ Open(c, "application/json", "mon_collect")
    /\ UNCHANGED << glob, content, req, connected, discAt >>

\* do_mon: mons.collect() inside the try; any exception goes to the finally.
MonCollect(c) ==
    /\ pc[c] = "mon_collect"
    /\ \E faults \in [Range(glob) -> Faults] :
          /\ DoCollect(c, regOf[c], faults)
          /\ LET kind == CollectOf(regOf[c], faults).kind
             IN  IF kind = "ok"
                 THEN pc' = [pc EXCEPT ![c] = "mon_write"] /\ exit' = exit
                 ELSE Leaving(c, "collect_" \o kind, TRUE)
    /\ UNCHANGED << glob, content, mons, type_titles, built, nclose >>
    /\ UNCHANGED << lastOut, lastFaults, prevOut, changed >>
    /\ UNCHANGED << regOf, req, connected, discAt, serving, resp >>

\* do_mon: self.wfile.write(json.dumps(...))
MonWrite(c) ==
    /\ pc[c] = "mon_write"
    /\ IF connected[c]
       THEN /\ resp' = [resp EXCEPT ![c].body = TRUE]
            /\ Leaving(c, "returned", FALSE)
       ELSE /\ resp' = resp
            /\ Leaving(c, "write", TRUE)
    /\ UNCHANGED << glob, content, regOf, req, connected, discAt, serving >>
    /\ UNCHANGED monsVars

\* do_mon_sse up to mons = Mons(); the update rate is parsed first.
SseOpen(c) ==
    /\ Starts(c, "do_GET", "do_mon_sse")
    /\ IF ~UpdateRate(req[c]).ok
       THEN /\ Leave(c, "update_rate", TRUE)
            /\ UNCHANGED << resp, regOf >>
            /\ UNCHANGED monsVars
       ELSE Open(c, "text/event-stream", "sse_prefix")
    /\ UNCHANGED << glob, content, req, connected, discAt >>

\* self.wfile.write(b"data: ")
SsePrefix(c) ==
    /\ pc[c] = "sse_prefix"
    /\ IF connected[c]
       THEN pc' = [pc EXCEPT ![c] = "sse_collect"] /\ exit' = exit
       ELSE Leaving(c, "write", FALSE)
    /\ UNCHANGED << glob, content, regOf, req, connected, discAt, serving, resp >>
    /\ UNCHANGED monsVars

\* mons.collect() inside the inner try: an OSError that leaves collect is
\* caught by except (BrokenPipeError, OSError) and returns, a ValueError
\* leaves the handler through the finally.
SseCollect(c) ==
    /\ pc[c] = "sse_collect"
    /\ \E faults \in [Range(glob) -> Faults] :
          /\ DoCollect(c, regOf[c], faults)
          /\ LET kind == CollectOf(regOf[c], faults).kind
             IN  IF kind = "ok"
                 THEN pc' = [pc EXCEPT ![c] = "sse_emit"] /\ exit' = exit
                 ELSE Leaving(c, "collect_" \o kind, kind # "OSError")
    /\ UNCHANGED << glob, content, mons, type_titles, built, nclose >>
    /\ UNCHANGED << lastOut, lastFaults, prevOut, changed >>
    /\ UNCHANGED << regOf, req, connected, discAt, serving, resp >>

\* The writes of the snapshot and of the blank line, and the flush.
SseEmit(c) ==
    /\ pc[c] = "sse_emit"
    /\ IF connected[c]
       THEN /\ resp' = [resp EXCEPT ![c].body = TRUE]
            /\ pc' = [pc EXCEPT ![c] = "sse_sleep"]
            /\ exit' = exit
       ELSE /\ resp' = resp
            /\ Leaving(c, "write", FALSE)
    /\ UNCHANGED << glob, content, regOf, req, connected, discAt, serving >>
    /\ UNCHANGED monsVars

\* time.sleep(update_rate) raises ValueError for a negative length.
SseSleep(c) ==
    /\ pc[c] = "sse_sleep"
    /\ IF UpdateRate(req[c]).val < 0
       THEN Leaving(c, "sleep", TRUE)
       ELSE pc' = [pc EXCEPT ![c] = "sse_prefix"] /\ exit' = exit
    /\ UNCHANGED << glob, content, regOf, req, connected, discAt, serving, resp >>
    /\ UNCHANGED monsVars

\* finally: mons.close(), of do_mon and of do_mon_sse.
Finally(c) ==
    /\ pc[c] = "finally"
    /\ DoClose(c, regOf[c])
    /\ pc' = [pc EXCEPT ![c] = "done"]
    /\ serving' = 0
    /\ UNCHANGED << glob, content, type_titles, built, lastOut, lastFaults,
                    prevOut, changed >>
    /\ UNCHANGED << regOf, req, connected, discAt, resp, exit >>

Next ==
    \/ SensorWrite
    \/ \E c \in Conns :
          \/ Connect(c, Requests)
          \/ Disconnect(c)
          \/ DoIndex(c)
          \/ NotFound(c)
          \/ Unsupported(c)
          \/ DoHead(c)
          \/ MonOpen(c)
          \/ MonCollect(c)
          \/ MonWrite(c)
          \/ SseOpen(c)
          \/ SsePrefix(c)
          \/ SseCollect(c)
          \/ SseEmit(c)
          \/ SseSleep(c)
          \/ Finally(c)

Spec == InitHttp /\ [][Next]_vars

\* ------------------------- the server under registry requests (SpecRegistries)
\* The requests that build a registry.
RegistryRequests ==
    { r \in Requests : r.method = "GET" /\ r.path \in {"/mon.json", "/mon.sse"}
                       /\ r.rate = <<>> }

NextRegistries ==
    \E c \in Conns :
          \/ Connect(c, RegistryRequests)
          \/ Disconnect(c)
          \/ MonOpen(c)
          \/ MonCollect(c)
          \/ MonWrite(c)
          \/ SseOpen(c)
          \/ SsePrefix(c)
          \/ SseCollect(c)
          \/ SseEmit(c)
          \/ SseSleep(c)
          \/ Finally(c)

SpecRegistries == InitHttp /\ [][NextRegistries]_vars

\* ------------------------------------------------- claims on the handler
\* The file objects the registry of request c opened.
OpenedBy(c) == { h \in DOMAIN fh : fh[h].st # "none" /\ fh[h].opener = c }

AllClosed(c) == \A h \in OpenedBy(c) : fh[h].st = "closed"

\* The handler of c is inside while True of do_mon_sse, or has left it.
EnteredLoop(c) ==
    /\ MethodOf(req[c]) = "do_GET"
    /\ Route(req[c]) = "do_mon_sse"
    /\ pc[c] \in SseLoop \cup {"finally", "done"}
    /\ regOf[c] # 0
    /\ built[regOf[c]] = "yes"

\* C2: when the handler of a /mon.json or /mon.sse request has finished, on
\* any exit path, every handle its registry opened has been closed.
C2_NoHandleLeak ==
    \A c \in Conns : pc[c] = "done" => AllClosed(c)

\* C3: the /mon.sse loop is left only because a write to the client
\* failed, never because of a collection error or of the sleep.
C3_WriteFailureSoleExit ==
    \A c \in Conns :
        EnteredLoop(c) /\ pc[c] \in {"finally", "done"} => exit[c].cause = "write"

\* One of the three routes.
IsRoute(r) == r.method = "GET" /\ r.path \in {"/", "/mon.json", "/mon.sse"}

\* C6: every request that is not GET /, GET /mon.json or GET /mon.sse is
\* answered 404 with a text/plain body and builds no registry.
C6_ThreeRoutes ==
    \A c \in Conns :
        pc[c] = "done" /\ ~IsRoute(req[c]) =>
            /\ regOf[c] = 0
            /\ exit[c].cause = "returned" =>
                  resp[c].status = 404 /\ resp[c].ctype = "text/plain"

\* C9: once the client of a /mon.sse connection has gone away while the
\* handler is in its loop, the handler leaves the loop at a write, returns
\* without raising, and its registry's handles are closed.
C9_DisconnectStops ==
    \A c \in Conns :
        /\ discAt[c] = "loop"
        /\ UpdateRate(req[c]).val >= 0
        /\ pc[c] = "done"
        => /\ ~exit[c].raised
           /\ AllClosed(c)

\* C10: every /mon.json and /mon.sse request constructs a registry of its
\* own, a file object is only ever operated on by the request that opened
\* it, and while a connection is in its loop the handles of its registry
\* are open whatever other requests closed.
C10_PrivateHandles ==
    /\ \A c \in Conns : \A d \in Conns :
          c # d /\ regOf[c] # 0 /\ regOf[d] # 0 => regOf[c] # regOf[d]
    /\ \A e \in oplog : e[1] = e[2]
    /\ \A c \in Conns :
          pc[c] \in SseLoop =>
              \A h \in Handles(mons[regOf[c]]) :
                  fh[h].st = "open" /\ fh[h].opener = c

C10_Witness ==
    /\ pc[1] = "done"
    /\ <<1, 1, "collect">> \in oplog
    /\ <<1, 1, "close">> \in oplog
    /\ pc[2] \in SseLoop
    /\ <<2, 2, "collect">> \in oplog
    /\ Handles(mons[regOf[2]]) # {}

====
